---------------------------- MODULE Spec2Model ----------------------------
(***************************************************************************)
(* Model of the table-info indexer of AptosDB                              *)
(* (storage/aptosdb/src/indexer.rs): index_transactions, the write         *)
(* classifier parse_table_info_from_write_op, the value walker             *)
(* parse_table_info and the predicate is_table.                            *)
(*                                                                         *)
(* Results of fallible functions are strings: "Ok", the error kinds        *)
(* "PathError", "DecodeError", "UnresolvedTable", "MalformedMarker",       *)
(* "StorageError" (an Err returned with ?), and "Panic" (assert_eq! or an  *)
(* out-of-bounds index: the call unwinds and returns nothing).             *)
(*                                                                         *)
(* Not modelled: a failure of get_latest_transaction_info_option (line 39) *)
(* or of batch.put (line 115), and the timer and the println!.  Decoding   *)
(* does not depend on the version the resolver is bound to.                *)
(***************************************************************************)
EXTENDS Naturals, Sequences, FiniteSets

VARIABLES
    index_db,        \* self.index_db: the durable map TableHandle -> TableInfo
    latest_version,  \* ledger_store's latest committed version: <<>> or <<v>>
    pc,              \* "idle" | "returned" | "panicked"
    call,            \* the last index_transactions call: argument and what it did
    replayed,        \* the last call repeated the call before it
    before           \* then: the durable index before the call it repeated

vars == <<index_db, latest_version, pc, call, replayed, before>>

---------------------------------------------------------------------------
(* Bounds of the model.                                                    *)
MaxTxns == 2      \* transactions in one call
MaxWrites == 2    \* writes in one call, over all its transactions
MaxVersion == 0   \* highest latest committed version of the ledger store

Handles == {1, 2}  \* the table handles (u128) that occur in the inputs

---------------------------------------------------------------------------
(* TypeTag / StructTag.  One record shape for all tags.                    *)
Prim(k) == [kind |-> k, address |-> 0, module |-> "", name |-> "", type_params |-> <<>>]

U64T == Prim("u64")
U128T == Prim("u128")
AddressT == Prim("address")

StructTag(a, m, n, tps) ==
    [kind |-> "struct", address |-> a, module |-> m, name |-> n, type_params |-> tps]

\* AccountAddress::ONE
ONE == 1

TableT(tps) == StructTag(ONE, "table", "Table", tps)
RT == StructTag(ONE, "m", "R", <<>>)
ST == StructTag(ONE, "m", "S", <<>>)

(* AnnotatedMoveValue.  One record shape for all variants: `value` holds a *)
(* Struct's (field name, value) pairs, `items` a Vector's elements, `num`  *)
(* a U128's number.                                                        *)
PrimValue(k, n) == [kind |-> k, type_ |-> Prim(""), value |-> <<>>, items |-> <<>>, num |-> n]
U8 == PrimValue("U8", 0)
U64 == PrimValue("U64", 0)
U128(n) == PrimValue("U128", n)
Bool == PrimValue("Bool", 0)
Address == PrimValue("Address", 0)
Bytes == PrimValue("Bytes", 0)
Vector(xs) == [kind |-> "Vector", type_ |-> Prim(""), value |-> <<>>, items |-> xs, num |-> 0]
Struct(tag, fields) == [kind |-> "Struct", type_ |-> tag, value |-> fields, items |-> <<>>, num |-> 0]

TableInfo(k, v) == [key_type |-> k, value_type |-> v]

(* SchemaBatch: the staged puts, in the order they were staged.            *)
Put(h, info) == [handle |-> h, info |-> info]

---------------------------------------------------------------------------
\* is_table as a bug would have it: the address is not compared
is_table_any_address(struct_tag) ==
    /\ struct_tag.module = "table"
    /\ struct_tag.name = "Table"

is_table(struct_tag) ==
    /\ struct_tag.address = ONE
    /\ struct_tag.module = "table"
    /\ struct_tag.name = "Table"

(* The walker.  Returns the result and the batch as the walk left it: the  *)
(* batch is a &mut, so what was staged before an error stays staged.       *)
RECURSIVE parse_table_info(_, _)
RECURSIVE parse_items(_, _, _)
RECURSIVE parse_fields(_, _, _)

\* the ? of the loop over items: r is the walk of items[i]
next_item(items, i, r) ==
    IF r.result # "Ok" THEN r ELSE parse_items(items, i + 1, r.batch)

\* the loop over items as a bug would have it: the items are not walked
parse_items_skipped(items, i, batch) == [result |-> "Ok", batch |-> batch]

\* for item in items { self.parse_table_info(item, batch)?; }
parse_items(items, i, batch) ==
    IF i > Len(items) THEN [result |-> "Ok", batch |-> batch]
    ELSE next_item(items, i, parse_table_info(items[i], batch))

\* the ? of the loop over fields: r is the walk of fields[i]
next_field(fields, i, r) ==
    IF r.result # "Ok" THEN r ELSE parse_fields(fields, i + 1, r.batch)

\* for (_identifier, field) in &struct_value.value { self.parse_table_info(&field, batch)?; }
parse_fields(fields, i, batch) ==
    IF i > Len(fields) THEN [result |-> "Ok", batch |-> batch]
    ELSE next_field(fields, i, parse_table_info(fields[i][2], batch))

\* the walker as a bug would have it: the fields of a table struct are walked too
parse_table_info_recursing(move_value, batch) ==
    IF move_value.kind = "Vector" THEN parse_items(move_value.items, 1, batch)
    ELSE IF move_value.kind = "Struct" THEN
        LET struct_tag == move_value.type_ IN
        IF is_table(struct_tag) THEN
            IF Len(struct_tag.type_params) # 2
            THEN [result |-> "Panic", batch |-> batch]
            ELSE IF Len(move_value.value) = 0
            THEN [result |-> "Panic", batch |-> batch]
            ELSE LET table_info == TableInfo(struct_tag.type_params[1],
                                             struct_tag.type_params[2])
                     first == move_value.value[1]
                 IN  IF first[2].kind = "U128" THEN
                         IF first[1] # "handle"
                         THEN [result |-> "Panic", batch |-> batch]
                         ELSE parse_fields(move_value.value, 1,
                                           Append(batch, Put(first[2].num, table_info)))
                     ELSE [result |-> "MalformedMarker", batch |-> batch]
        ELSE parse_fields(move_value.value, 1, batch)
    ELSE [result |-> "Ok", batch |-> batch]

\* the walker as a bug would have it: a handle the batch already holds is not staged again
parse_table_info_first_wins(move_value, batch) ==
    IF move_value.kind = "Vector" THEN parse_items(move_value.items, 1, batch)
    ELSE IF move_value.kind = "Struct" THEN
        LET struct_tag == move_value.type_ IN
        IF is_table(struct_tag) THEN
            IF Len(struct_tag.type_params) # 2
            THEN [result |-> "Panic", batch |-> batch]
            ELSE IF Len(move_value.value) = 0
            THEN [result |-> "Panic", batch |-> batch]
            ELSE LET table_info == TableInfo(struct_tag.type_params[1],
                                             struct_tag.type_params[2])
                     first == move_value.value[1]
                 IN  IF first[2].kind = "U128" THEN
                         IF first[1] # "handle"
                         THEN [result |-> "Panic", batch |-> batch]
                         ELSE IF \E i \in DOMAIN batch : batch[i].handle = first[2].num
                         THEN [result |-> "Ok", batch |-> batch]
                         ELSE [result |-> "Ok",
                               batch |-> Append(batch, Put(first[2].num, table_info))]
                     ELSE [result |-> "MalformedMarker", batch |-> batch]
        ELSE parse_fields(move_value.value, 1, batch)
    ELSE [result |-> "Ok", batch |-> batch]

\* the walker as a bug would have it: the first field is taken for the handle, u128 or not
parse_table_info_any_handle(move_value, batch) ==
    IF move_value.kind = "Vector" THEN parse_items(move_value.items, 1, batch)
    ELSE IF move_value.kind = "Struct" THEN
        LET struct_tag == move_value.type_ IN
        IF is_table(struct_tag) THEN
            IF Len(struct_tag.type_params) # 2
            THEN [result |-> "Panic", batch |-> batch]
            ELSE IF Len(move_value.value) = 0
            THEN [result |-> "Panic", batch |-> batch]
            ELSE LET table_info == TableInfo(struct_tag.type_params[1],
                                             struct_tag.type_params[2])
                     first == move_value.value[1]
                 IN  IF first[1] # "handle"
                     THEN [result |-> "Panic", batch |-> batch]
                     ELSE [result |-> "Ok",
                           batch |-> Append(batch, Put(first[2].num, table_info))]
        ELSE parse_fields(move_value.value, 1, batch)
    ELSE [result |-> "Ok", batch |-> batch]

\* the walker as a bug would have it: key type and value type exchanged
parse_table_info_swapped(move_value, batch) ==
    IF move_value.kind = "Vector" THEN parse_items(move_value.items, 1, batch)
    ELSE IF move_value.kind = "Struct" THEN
        LET struct_tag == move_value.type_ IN
        IF is_table(struct_tag) THEN
            IF Len(struct_tag.type_params) # 2
            THEN [result |-> "Panic", batch |-> batch]
            ELSE IF Len(move_value.value) = 0
            THEN [result |-> "Panic", batch |-> batch]
            ELSE LET table_info == TableInfo(struct_tag.type_params[2],
                                             struct_tag.type_params[1])
                     first == move_value.value[1]
                 IN  IF first[2].kind = "U128" THEN
                         IF first[1] # "handle"
                         THEN [result |-> "Panic", batch |-> batch]
                         ELSE [result |-> "Ok",
                               batch |-> Append(batch, Put(first[2].num, table_info))]
                     ELSE [result |-> "MalformedMarker", batch |-> batch]
        ELSE parse_fields(move_value.value, 1, batch)
    ELSE [result |-> "Ok", batch |-> batch]

parse_table_info(move_value, batch) ==
    IF move_value.kind = "Vector" THEN parse_items(move_value.items, 1, batch)
    ELSE IF move_value.kind = "Struct" THEN
        LET struct_tag == move_value.type_ IN
        IF is_table(struct_tag) THEN
            IF Len(struct_tag.type_params) # 2
            THEN [result |-> "Panic", batch |-> batch]            \* assert_eq!(.. len(), 2)
            ELSE IF Len(move_value.value) = 0
            THEN [result |-> "Panic", batch |-> batch]            \* struct_value.value[0]
            ELSE LET table_info == TableInfo(struct_tag.type_params[1],
                                             struct_tag.type_params[2])
                     first == move_value.value[1]
                 IN  IF first[2].kind = "U128" THEN
                         IF first[1] # "handle"
                         THEN [result |-> "Panic", batch |-> batch]   \* assert_eq!(name, "handle")
                         ELSE [result |-> "Ok",
                               batch |-> Append(batch, Put(first[2].num, table_info))]
                     ELSE [result |-> "MalformedMarker", batch |-> batch]   \* bail!
        ELSE parse_fields(move_value.value, 1, batch)
    ELSE [result |-> "Ok", batch |-> batch]    \* there won't be tables in primitives

---------------------------------------------------------------------------
(* StateKey, WriteOp and the bytes of a written value.                     *)
NoTag == Prim("")
AccessPath(p, tag) == [kind |-> "AccessPath", path |-> [kind |-> p, tag |-> tag], handle |-> 0]
TableItem(h) == [kind |-> "TableItem", path |-> [kind |-> "", tag |-> NoTag], handle |-> h]
Raw == [kind |-> "Raw", path |-> [kind |-> "", tag |-> NoTag], handle |-> 0]

Value(bytes) == [kind |-> "Value", bytes |-> bytes]
Deletion == [kind |-> "Deletion", bytes |-> <<>>]
Delta == [kind |-> "Delta", bytes |-> <<>>]

(* Bytes are not self-describing: the same bytes may decode under several  *)
(* types.  A byte string is the list of its decodings, <<type, value>>;    *)
(* under any other type it does not decode.                                *)
RECURSIVE view_from(_, _, _)
view_from(ty, bytes, i) ==
    IF i > Len(bytes) THEN [result |-> "DecodeError", value |-> U8]
    ELSE IF bytes[i][1] = ty THEN [result |-> "Ok", value |-> bytes[i][2]]
    ELSE view_from(ty, bytes, i + 1)

\* annotator.view_value(&type_tag, bytes)
view_value(ty, bytes) == view_from(ty, bytes, 1)

(* The index store.  A map is a function whose domain is its keys.         *)
MapPut(m, k, v) == [x \in (DOMAIN m) \cup {k} |-> IF x = k THEN v ELSE m[x]]

\* self.get_table_info(handle): a read of the durable index
get_table_info(index, handle) ==
    IF handle \in DOMAIN index
    THEN [result |-> "Ok", info |-> index[handle]]
    ELSE [result |-> "UnresolvedTable", info |-> TableInfo(NoTag, NoTag)]

\* self.index_db.write_schemas(batch): the staged puts applied in order, atomically
RECURSIVE write_schemas(_, _)
write_schemas(index, batch) ==
    IF batch = <<>> THEN index
    ELSE write_schemas(MapPut(index, Head(batch).handle, Head(batch).info), Tail(batch))

---------------------------------------------------------------------------
(* The write classifier.  `lookups` are the handles it looked up in the    *)
(* index, `decodes` the number of view_value calls it made.                *)
Classified(result, batch, lookups, decodes) ==
    [result |-> result, batch |-> batch, lookups |-> lookups, decodes |-> decodes]

\* self.parse_table_info(.., batch)? : w is the walk of the decoded value
walked(w, lookups) == Classified(w.result, w.batch, lookups, 1)

\* self.parse_table_info(&annotator.view_value(..)?, batch)? : v is the decoding
walk_decoded(v, batch, lookups) ==
    IF v.result # "Ok" THEN Classified(v.result, batch, lookups, 1)
    ELSE walked(parse_table_info(v.value, batch), lookups)

\* walk_table_item as a bug would have it: an unknown handle is skipped, not an error
walk_table_item_skip(t, handle, write_op, batch) ==
    IF t.result # "Ok" THEN Classified("Ok", batch, <<handle>>, 0)
    ELSE walk_decoded(view_value(t.info.value_type, write_op.bytes), batch, <<handle>>)

\* walk_table_item as a bug would have it: the value is decoded with the key type
walk_table_item_key_type(t, handle, write_op, batch) ==
    IF t.result # "Ok" THEN Classified(t.result, batch, <<handle>>, 0)
    ELSE walk_decoded(view_value(t.info.key_type, write_op.bytes), batch, <<handle>>)

\* StateKey::TableItem: t is what self.get_table_info(*handle) returned
walk_table_item(t, handle, write_op, batch) ==
    IF t.result # "Ok" THEN Classified(t.result, batch, <<handle>>, 0)
    ELSE walk_decoded(view_value(t.info.value_type, write_op.bytes), batch, <<handle>>)

\* the classifier as a bug would have it: the lookup sees what the batch has staged
classify_reading_batch(index, state_key, write_op, batch) ==
    IF write_op.kind = "Value" THEN
        IF state_key.kind = "AccessPath" THEN
            IF state_key.path.kind = "Bad"
            THEN Classified("PathError", batch, <<>>, 0)
            ELSE IF state_key.path.kind = "Code"
            THEN Classified("Ok", batch, <<>>, 0)
            ELSE walk_decoded(view_value(state_key.path.tag, write_op.bytes), batch, <<>>)
        ELSE IF state_key.kind = "TableItem" THEN
            walk_table_item(get_table_info(write_schemas(index, batch), state_key.handle),
                            state_key.handle, write_op, batch)
        ELSE Classified("Ok", batch, <<>>, 0)
    ELSE Classified("Ok", batch, <<>>, 0)

\* the classifier as a bug would have it: the state key is matched before the operation
classify_key_first(index, state_key, write_op, batch) ==
    IF state_key.kind = "TableItem" THEN
        walk_table_item(get_table_info(index, state_key.handle), state_key.handle,
                        write_op, batch)
    ELSE IF write_op.kind = "Value" THEN
        IF state_key.kind = "AccessPath" THEN
            IF state_key.path.kind = "Bad"
            THEN Classified("PathError", batch, <<>>, 0)
            ELSE IF state_key.path.kind = "Code"
            THEN Classified("Ok", batch, <<>>, 0)
            ELSE walk_decoded(view_value(state_key.path.tag, write_op.bytes), batch, <<>>)
        ELSE Classified("Ok", batch, <<>>, 0)
    ELSE Classified("Ok", batch, <<>>, 0)

parse_table_info_from_write_op(index, state_key, write_op, batch) ==
    IF write_op.kind = "Value" THEN
        IF state_key.kind = "AccessPath" THEN
            IF state_key.path.kind = "Bad"
            THEN Classified("PathError", batch, <<>>, 0)      \* (&access_path.path).try_into()?
            ELSE IF state_key.path.kind = "Code"
            THEN Classified("Ok", batch, <<>>, 0)
            ELSE walk_decoded(view_value(state_key.path.tag, write_op.bytes), batch, <<>>)
        ELSE IF state_key.kind = "TableItem" THEN
            walk_table_item(get_table_info(index, state_key.handle), state_key.handle,
                            write_op, batch)
        ELSE Classified("Ok", batch, <<>>, 0)                 \* StateKey::Raw(_) => ()
    ELSE Classified("Ok", batch, <<>>, 0)                     \* Deletion, Delta => ()

---------------------------------------------------------------------------
(* index_transactions.  The loops stop at the first write that is not Ok.  *)
(* `classified` counts the writes handed to the classifier, `steps` keeps  *)
(* what the classifier returned for each of them, in order.                *)
Progress(result, batch, lookups, decodes, classified, steps) ==
    [result |-> result, batch |-> batch, lookups |-> lookups,
     decodes |-> decodes, classified |-> classified, steps |-> steps]

\* the progress after the classifier returned c
After(acc, c) ==
    Progress(c.result, c.batch, acc.lookups \o c.lookups, acc.decodes + c.decodes,
             acc.classified + 1, Append(acc.steps, c))

RECURSIVE for_writes(_, _, _, _)

\* the loop over a write set as a bug would have it: a failed write does not end it
next_write_unchecked(index, write_set, j, acc) == for_writes(index, write_set, j + 1, acc)

\* the ? of the loop over a write set
next_write(index, write_set, j, acc) ==
    IF acc.result # "Ok" THEN acc ELSE for_writes(index, write_set, j + 1, acc)

\* for (state_key, write_op) in txn_to_commit.write_set() { ..? }
for_writes(index, write_set, j, acc) ==
    IF j > Len(write_set) THEN acc
    ELSE next_write(index, write_set, j,
                    After(acc, parse_table_info_from_write_op(index, write_set[j][1],
                                                              write_set[j][2], acc.batch)))

RECURSIVE for_txns(_, _, _, _)

next_txn(index, txns_to_commit, t, acc) ==
    IF acc.result # "Ok" THEN acc ELSE for_txns(index, txns_to_commit, t + 1, acc)

\* for txn_to_commit in txns_to_commit { .. }
for_txns(index, txns_to_commit, t, acc) ==
    IF t > Len(txns_to_commit) THEN acc
    ELSE next_txn(index, txns_to_commit, t, for_writes(index, txns_to_commit[t], 1, acc))

(* What a call did: its argument, the index it started from, its result,   *)
(* the index it left, and the calls it made on its collaborators.          *)
CallRecord(txns, pre, result, index, p, version_queries, view_version, batches, commits) ==
    [txns |-> txns, pre_index |-> pre, result |-> result, index |-> index,
     batch |-> p.batch, lookups |-> p.lookups, decodes |-> p.decodes,
     classified |-> p.classified, steps |-> p.steps,
     version_queries |-> version_queries,   \* get_latest_transaction_info_option calls
     view_version |-> view_version,         \* DbStateView.version, an Option
     batches |-> batches,                   \* SchemaBatch::new calls
     commits |-> commits]                   \* write_schemas calls

Start == Progress("Ok", <<>>, <<>>, 0, 0, <<>>)

\* commit as a bug would have it: the batch is written although a write failed
commit_partial(index, view_version, txns_to_commit, io_ok, p) ==
    IF p.result # "Ok"
    THEN CallRecord(txns_to_commit, index, p.result, write_schemas(index, p.batch),
                    p, 1, view_version, 1, 1)
    ELSE IF io_ok
    THEN CallRecord(txns_to_commit, index, "Ok", write_schemas(index, p.batch),
                    p, 1, view_version, 1, 1)
    ELSE CallRecord(txns_to_commit, index, "StorageError", index, p, 1, view_version, 1, 1)

\* commit as a bug would have it: the index becomes what the batch holds
commit_replacing(index, view_version, txns_to_commit, io_ok, p) ==
    IF p.result # "Ok"
    THEN CallRecord(txns_to_commit, index, p.result, index, p, 1, view_version, 1, 0)
    ELSE IF io_ok
    THEN CallRecord(txns_to_commit, index, "Ok", write_schemas(<<>>, p.batch),
                    p, 1, view_version, 1, 1)
    ELSE CallRecord(txns_to_commit, index, "StorageError", index, p, 1, view_version, 1, 1)

\* commit as a bug would have it: an empty batch is not written
commit_if_staged(index, view_version, txns_to_commit, io_ok, p) ==
    IF p.result # "Ok"
    THEN CallRecord(txns_to_commit, index, p.result, index, p, 1, view_version, 1, 0)
    ELSE IF p.batch = <<>>
    THEN CallRecord(txns_to_commit, index, "Ok", index, p, 1, view_version, 1, 0)
    ELSE IF io_ok
    THEN CallRecord(txns_to_commit, index, "Ok", write_schemas(index, p.batch),
                    p, 1, view_version, 1, 1)
    ELSE CallRecord(txns_to_commit, index, "StorageError", index, p, 1, view_version, 1, 1)

\* self.index_db.write_schemas(batch), reached when the loops ended with p
commit(index, view_version, txns_to_commit, io_ok, p) ==
    IF p.result # "Ok"
    THEN CallRecord(txns_to_commit, index, p.result, index, p, 1, view_version, 1, 0)
    ELSE IF io_ok
    THEN CallRecord(txns_to_commit, index, "Ok", write_schemas(index, p.batch),
                    p, 1, view_version, 1, 1)
    ELSE CallRecord(txns_to_commit, index, "StorageError", index, p, 1, view_version, 1, 1)

\* next_version as a bug would have it: the latest version itself, not the one after it
next_version_latest(latest) == latest

\* get_latest_transaction_info_option()?.map(|(v, _)| v + 1)
next_version(latest) == IF latest = <<>> THEN <<>> ELSE <<latest[1] + 1>>

\* index_transactions as a bug would have it: no early return on an empty list
index_transactions_unguarded(index, latest, txns_to_commit, io_ok) ==
    commit(index, next_version(latest), txns_to_commit, io_ok,
           for_txns(index, txns_to_commit, 1, Start))

index_transactions(index, latest, txns_to_commit, io_ok) ==
    IF txns_to_commit = <<>>
    THEN CallRecord(txns_to_commit, index, "Ok", index, Start, 0, <<>>, 0, 0)
    ELSE commit(index, next_version(latest), txns_to_commit, io_ok,
                for_txns(index, txns_to_commit, 1, Start))

---------------------------------------------------------------------------
(* The inputs: decoded value trees, byte strings, writes, calls.           *)
P1 == <<AddressT, U64T>>
P2 == <<AddressT, U128T>>
P3 == <<AddressT, TableT(P1)>>

Field(n, v) == <<n, v>>
Marker(h, tps) == Struct(TableT(tps), <<Field("handle", U128(h))>>)

Prims == {U8, U64, U128(1), U128(2), Bool, Address, Bytes}

GoodMarkers == {Marker(1, P2), Marker(1, P3), Marker(2, P1)}

ArityOne == Marker(1, <<AddressT>>)
ArityThree == Marker(1, <<AddressT, U64T, U64T>>)
WrongName == Struct(TableT(P1), <<Field("hndl", U128(1))>>)
NoFields == Struct(TableT(P1), <<>>)
HandleU64 == Struct(TableT(P1), <<Field("handle", U64)>>)
HandleSecond == Struct(TableT(P1), <<Field("length", U64), Field("handle", U128(1))>>)
OtherAddress == Struct(TableT(P1), <<Field("other", Address)>>)

BadMarkers == {ArityOne, ArityThree, WrongName, NoFields, HandleU64, HandleSecond,
               OtherAddress}

\* structures one component away from the marker type
NearMarkers == {Struct(StructTag(2, "table", "Table", P1), <<Field("handle", U128(1))>>),
                Struct(StructTag(ONE, "tables", "Table", P1), <<Field("handle", U128(1))>>),
                Struct(StructTag(ONE, "table", "Tables", P1), <<Field("handle", U128(1))>>)}

\* markers with more inside them
DeepMarkers == {Struct(TableT(P2), <<Field("handle", U128(1)), Field("inner", Marker(2, P1))>>),
                Struct(TableT(P2), <<Field("handle", U128(1)), Field("inner", ArityOne)>>)}

\* structures two or three components away from it
FarMarkers == {Struct(StructTag(2, "tables", "Table", P1), <<Field("handle", U128(1))>>),
               Struct(StructTag(2, "table", "Tables", P1), <<Field("handle", U128(1))>>),
               Struct(StructTag(ONE, "tables", "Tables", P1), <<Field("handle", U128(1))>>),
               Struct(StructTag(2, "tables", "Tables", P1), <<Field("handle", U128(1))>>)}

Level0 == Prims \cup GoodMarkers \cup BadMarkers \cup NearMarkers \cup FarMarkers \cup DeepMarkers

Small == {U64, Marker(1, P2), Marker(1, P3), Marker(2, P1), HandleU64, ArityOne}

Wrap(S, T) ==
    {Vector(<<>>), Struct(ST, <<>>)}
    \cup {Vector(<<a>>) : a \in S}
    \cup {Struct(ST, <<Field("f", a)>>) : a \in S}
    \cup {Vector(<<a, b>>) : a \in T, b \in T}
    \cup {Struct(ST, <<Field("f", a), Field("g", b)>>) : a \in T, b \in T}

Level1 == Wrap(Level0, Small)
Level2 == Wrap(Level1, {})

Trees == Level0 \cup Level1 \cup Level2

\* a resource's bytes decode under the resource's own type
Resource(tree) == <<AccessPath("Resource", tree.type_), Value(<<<<tree.type_, tree>>>>)>>
InR(tree) == Struct(RT, <<Field("t", tree)>>)

ResourceWrites ==
    {Resource(InR(x)) : x \in Trees} \cup {Resource(x) : x \in {y \in Trees : y.kind = "Struct"}}

Garbage == <<>>
OnlyU64 == <<<<U64T, U64>>>>
\* sixteen bytes: a u128, and as well a Table<address, u64> { handle: u128 }
Sixteen(n) == <<<<U128T, U128(n)>>, <<TableT(P1), Marker(n, P1)>>>>
ItemBytes == {Garbage, OnlyU64, Sixteen(1), Sixteen(2)}

Keys == {AccessPath("Resource", RT), AccessPath("Code", NoTag), AccessPath("Bad", NoTag), Raw}
        \cup {TableItem(h) : h \in Handles}

AllWrites ==
    ResourceWrites
    \cup {<<k, op>> : k \in Keys, op \in {Deletion, Delta, Value(Garbage), Value(OnlyU64)}}
    \cup {<<TableItem(h), Value(b)>> : h \in Handles, b \in ItemBytes}

CoreWrites ==
    {Resource(InR(Marker(1, P2))), Resource(InR(Marker(1, P3))), Resource(InR(Marker(2, P1))),
     <<TableItem(1), Value(Sixteen(2))>>, <<TableItem(2), Value(OnlyU64)>>,
     <<AccessPath("Resource", RT), Value(Garbage)>>, Resource(InR(HandleU64)),
     <<TableItem(1), Deletion>>}

\* the write sets of exactly n writes
WriteSets(n) == [1..n -> CoreWrites]

\* the calls of at most t transactions and at most k writes in all
RECURSIVE Batches(_, _)
Batches(t, k) ==
    IF t = 0 THEN {<<>>}
    ELSE {<<>>} \cup UNION {{<<ws>> \o b : b \in Batches(t - 1, k - Len(ws))} :
                            ws \in UNION {WriteSets(n) : n \in 0..k}}

Inputs == Batches(MaxTxns, MaxWrites) \cup {<<<<w>>>> : w \in AllWrites}

---------------------------------------------------------------------------
NoCall == CallRecord(<<>>, <<>>, "None", <<>>, Start, 0, <<>>, 0, 0)

Init ==
    /\ index_db = <<>>
    /\ latest_version = <<>>
    /\ pc = "idle"
    /\ call = NoCall
    /\ replayed = FALSE
    /\ before = <<>>

\* the caller calls index_transactions(txns); a panic ends the process
\* the call ends as r says
Ends(r) ==
    /\ call' = r
    /\ index_db' = r.index
    /\ pc' = IF r.result = "Panic" THEN "panicked" ELSE "returned"

IndexTransactions ==
    /\ pc = "idle"
    /\ \E txns \in Inputs, io_ok \in BOOLEAN :
         Ends(index_transactions(index_db, latest_version, txns, io_ok))
    /\ replayed' = FALSE
    /\ before' = <<>>
    /\ UNCHANGED latest_version

\* the caller calls index_transactions again with the transactions of a call that succeeded
Replay ==
    /\ pc = "returned"
    /\ call.result = "Ok"
    /\ ~replayed
    /\ \E io_ok \in BOOLEAN :
         Ends(index_transactions(index_db, latest_version, call.txns, io_ok))
    /\ replayed' = TRUE
    /\ before' = call.pre_index
    /\ UNCHANGED latest_version

\* the caller is done with the result
Return ==
    /\ pc = "returned"
    /\ pc' = "idle"
    /\ call' = NoCall
    /\ replayed' = FALSE
    /\ before' = <<>>
    /\ UNCHANGED <<index_db, latest_version>>

\* the ledger store commits a transaction
LedgerCommit ==
    /\ pc = "idle"
    /\ IF latest_version = <<>> THEN latest_version' = <<0>>
       ELSE /\ latest_version[1] < MaxVersion
            /\ latest_version' = <<latest_version[1] + 1>>
    /\ UNCHANGED <<index_db, pc, call, replayed, before>>

Next == IndexTransactions \/ Replay \/ Return \/ LedgerCommit

Spec == Init /\ [][Next]_vars

---------------------------------------------------------------------------
(* What the properties speak of.                                           *)
Done == pc \in {"returned", "panicked"}

\* every write of the call was classified and none failed
WritesOk == call.result \in {"Ok", "StorageError"}

RECURSIVE Flatten(_)
Flatten(txns) == IF txns = <<>> THEN <<>> ELSE Head(txns) \o Flatten(Tail(txns))

\* the writes of the last call, in processing order
CallWrites == Flatten(call.txns)

\* the last write the call handed to the classifier
LastWrite == CallWrites[call.classified]

IsItemValue(w) == w[1].kind = "TableItem" /\ w[2].kind = "Value"

StagedHandles(batch) == {batch[i].handle : i \in DOMAIN batch}

FatalKinds == {"DecodeError", "UnresolvedTable", "MalformedMarker"}

---------------------------------------------------------------------------
(* C1. All-or-nothing: a call that ends in anything but success leaves the *)
(* durable index exactly as it was before the call, whatever the other     *)
(* writes of the call had staged.                                          *)
C1_AllOrNothing ==
    (Done /\ call.result # "Ok") => index_db = call.pre_index

\* a call of two transactions fails with a fatal error after staging an
\* entry that would have changed the index
C1_Witness ==
    /\ Done
    /\ call.result \in FatalKinds
    /\ Len(call.txns) = 2
    /\ call.batch # <<>>
    /\ write_schemas(call.pre_index, call.batch) # call.pre_index
    /\ index_db = call.pre_index

(* A marker as the walker expects it, and a value all of whose markers     *)
(* (outside other markers) are such.                                       *)
IsGoodMarker(v) ==
    /\ Len(v.type_.type_params) = 2
    /\ Len(v.value) >= 1
    /\ v.value[1][1] = "handle"
    /\ v.value[1][2].kind = "U128"

RECURSIVE WellFormed(_)
WellFormed(v) ==
    IF v.kind = "Vector" THEN \A i \in DOMAIN v.items : WellFormed(v.items[i])
    ELSE IF v.kind = "Struct" THEN
        IF is_table(v.type_) THEN IsGoodMarker(v)
        ELSE \A i \in DOMAIN v.value : WellFormed(v.value[i][2])
    ELSE TRUE

\* the bytes of write w decode under type ty to a well-formed value
DecodesWell(ty, w) ==
    /\ view_value(ty, w[2].bytes).result = "Ok"
    /\ WellFormed(view_value(ty, w[2].bytes).value)

\* the last classified write is a Value write on a table item
LastIsItemValue == Done /\ call.classified >= 1 /\ IsItemValue(LastWrite)

(* C2, as claimed.  Ordering requirement: a Value write on a table-item    *)
(* key whose handle has no committed Table Info fails the call with        *)
(* UnresolvedTable, and the same write succeeds once an earlier call has   *)
(* committed the handle's Table Info.                                      *)
C2_AsClaimed ==
    LastIsItemValue =>
        IF LastWrite[1].handle \in DOMAIN call.pre_index
        THEN WritesOk
        ELSE call.result = "UnresolvedTable"

(* C2, amended.  The write on an uncommitted handle fails the call with    *)
(* UnresolvedTable; once an earlier call has committed the handle's Table  *)
(* Info the same write no longer fails as unresolved, and it succeeds      *)
(* whenever its bytes decode under the recorded value type to a value      *)
(* without a malformed marker.                                             *)
C2_Ordering ==
    LastIsItemValue =>
        IF LastWrite[1].handle \in DOMAIN call.pre_index
        THEN /\ call.result # "UnresolvedTable"
             /\ DecodesWell(call.pre_index[LastWrite[1].handle].value_type, LastWrite)
                    => WritesOk
        ELSE call.result = "UnresolvedTable"

\* a call of one table-item write succeeds on an index that an earlier call
\* filled; the same call on the empty index fails as unresolved
C2_Witness ==
    /\ LastIsItemValue
    /\ Len(CallWrites) = 1
    /\ LastWrite[1].handle \in DOMAIN call.pre_index
    /\ call.result = "Ok"
    /\ index_transactions(<<>>, latest_version, call.txns, TRUE).result = "UnresolvedTable"

(* C3. The lookup reads the durable index, not the batch in progress: a    *)
(* table-item Value write whose handle was staged by an earlier write of   *)
(* the same call, and is not in the durable index, fails as unresolved,    *)
(* and the call commits nothing.                                           *)
C3_LookupReadsDurableIndex ==
    (/\ LastIsItemValue
     /\ LastWrite[1].handle \notin DOMAIN call.pre_index
     /\ LastWrite[1].handle \in StagedHandles(call.batch))
        => /\ call.result = "UnresolvedTable"
           /\ call.commits = 0
           /\ index_db = call.pre_index

C3_Witness ==
    /\ LastIsItemValue
    /\ LastWrite[1].handle \notin DOMAIN call.pre_index
    /\ LastWrite[1].handle \in StagedHandles(call.batch)
    /\ call.result = "UnresolvedTable"
    /\ index_db = call.pre_index

---------------------------------------------------------------------------
(* The value a write is decoded to: a resource under the type of its path, *)
(* a table item under the value type the index records for its handle.     *)
IsWalked(w, index) ==
    /\ w[2].kind = "Value"
    /\ \/ w[1].kind = "AccessPath" /\ w[1].path.kind = "Resource"
       \/ w[1].kind = "TableItem" /\ w[1].handle \in DOMAIN index

TypeFor(w, index) ==
    IF w[1].kind = "AccessPath" THEN w[1].path.tag ELSE index[w[1].handle].value_type

\* the last call had one write, and that write decoded
OneWalk ==
    /\ Done
    /\ Len(CallWrites) = 1
    /\ IsWalked(CallWrites[1], call.pre_index)
    /\ view_value(TypeFor(CallWrites[1], call.pre_index), CallWrites[1][2].bytes).result = "Ok"

\* the value it decoded to
Tree == view_value(TypeFor(CallWrites[1], call.pre_index), CallWrites[1][2].bytes).value

IsMarker(v) == v.kind = "Struct" /\ is_table(v.type_)

(* The markers of a value in depth-first order: those reached through      *)
(* sequences and non-marker structures, not those inside another marker.   *)
RECURSIVE MarkersOf(_)
RECURSIVE MarkersIn(_)
MarkersIn(vs) == IF vs = <<>> THEN <<>> ELSE MarkersOf(Head(vs)) \o MarkersIn(Tail(vs))

MarkersOf(v) ==
    IF v.kind = "Vector" THEN MarkersIn(v.items)
    ELSE IF v.kind = "Struct" THEN
        IF is_table(v.type_) THEN <<v>>
        ELSE MarkersIn([i \in DOMAIN v.value |-> v.value[i][2]])
    ELSE <<>>

\* the entry a well-formed marker stands for (handle 0, which no input holds, for another)
EntryOf(m) ==
    IF IsGoodMarker(m)
    THEN Put(m.value[1][2].num, TableInfo(m.type_.type_params[1], m.type_.type_params[2]))
    ELSE Put(0, TableInfo(NoTag, NoTag))

Entries(ms) == [i \in DOMAIN ms |-> EntryOf(ms[i])]

(* C4. Table discovery: walking a value whose root is a table marker with  *)
(* type parameters (K, V) and a first field "handle" holding the u128 H    *)
(* stages exactly the one entry H -> {key_type: K, value_type: V}.         *)
C4_TableDiscovery ==
    (OneWalk /\ IsMarker(Tree) /\ IsGoodMarker(Tree))
        => /\ WritesOk
           /\ call.batch = <<Put(Tree.value[1][2].num,
                                 TableInfo(Tree.type_.type_params[1],
                                           Tree.type_.type_params[2]))>>

\* the root is a marker with different key and value types and with a
\* further marker among its fields, and one entry was staged
C4_Witness ==
    /\ OneWalk /\ IsMarker(Tree) /\ IsGoodMarker(Tree)
    /\ Tree.type_.type_params[1] # Tree.type_.type_params[2]
    /\ Len(Tree.value) = 2 /\ IsMarker(Tree.value[2][2])
    /\ Len(call.batch) = 1
    /\ call.batch[1].handle = Tree.value[1][2].num

(* C5, as claimed.  Nested discovery: for every decoded value, every       *)
(* (well-formed) marker reached through sequences and non-marker           *)
(* structures is staged, and a primitive stages nothing.                   *)
C5_AsClaimed ==
    (OneWalk /\ pc = "returned")
        => /\ \A i \in DOMAIN MarkersOf(Tree) :
                 IsGoodMarker(MarkersOf(Tree)[i])
                     => \E j \in DOMAIN call.batch : call.batch[j] = EntryOf(MarkersOf(Tree)[i])
           /\ Tree.kind \notin {"Vector", "Struct"} => call.batch = <<>>

(* C5, amended.  For every decoded value on which the walk succeeds, the   *)
(* entries staged are exactly those of the markers reached through         *)
(* sequences and non-marker structures, in depth-first order; a primitive  *)
(* stages nothing.                                                         *)
C5_NestedDiscovery ==
    (OneWalk /\ WritesOk)
        => /\ call.batch = Entries(MarkersOf(Tree))
           /\ Tree.kind \notin {"Vector", "Struct"} => call.batch = <<>>

\* a marker inside a sequence inside a structure inside the resource was staged
C5_Witness ==
    /\ OneWalk /\ WritesOk
    /\ Tree.kind = "Struct" /\ ~is_table(Tree.type_) /\ Len(Tree.value) = 1
    /\ Tree.value[1][2].kind = "Struct" /\ ~is_table(Tree.value[1][2].type_)
    /\ Len(Tree.value[1][2].value) = 1
    /\ Tree.value[1][2].value[1][2].kind = "Vector"
    /\ Len(Tree.value[1][2].value[1][2].items) = 1
    /\ IsMarker(Tree.value[1][2].value[1][2].items[1])
    /\ call.batch = <<EntryOf(Tree.value[1][2].value[1][2].items[1])>>

---------------------------------------------------------------------------
\* the handles the table-item Value writes of the last call refer to
ItemHandles == {CallWrites[i][1].handle : i \in {j \in DOMAIN CallWrites : IsItemValue(CallWrites[j])}}

\* the last call repeated a successful call, and none of its lookups failed
Repeated == Done /\ replayed /\ call.result # "UnresolvedTable"

(* C6, as claimed.  Idempotence: running index a second time on the same   *)
(* transactions, when the lookups of the second call succeed, leaves the   *)
(* durable index as the first call left it.                                *)
C6_AsClaimed ==
    Repeated => index_db = call.pre_index

(* C6, amended.  The same, provided the first call did not change the      *)
(* Table Info of a handle that a table-item Value write of the batch       *)
(* refers to.                                                              *)
C6_Idempotence ==
    (/\ Repeated
     /\ \A h \in ItemHandles : h \in DOMAIN before => call.pre_index[h] = before[h])
        => index_db = call.pre_index

\* a call that added to the index and looked a handle up was repeated, and
\* the repetition succeeded and wrote its batch again
C6_Witness ==
    /\ Repeated
    /\ call.result = "Ok"
    /\ call.commits = 1
    /\ call.batch # <<>>
    /\ ItemHandles # {}
    /\ before # call.pre_index
    /\ \A h \in ItemHandles : h \in DOMAIN before /\ call.pre_index[h] = before[h]
    /\ index_db = call.pre_index

---------------------------------------------------------------------------
(* C7. No-op on empty input: a call with no transactions returns Ok        *)
(* without asking for the latest version, without a lookup or a decoding,  *)
(* without creating or writing a batch, and leaves the index unchanged.    *)
C7_EmptyInput ==
    (Done /\ call.txns = <<>>)
        => /\ pc = "returned"
           /\ call.result = "Ok"
           /\ call.version_queries = 0
           /\ call.lookups = <<>>
           /\ call.decodes = 0
           /\ call.classified = 0
           /\ call.batches = 0
           /\ call.commits = 0
           /\ index_db = call.pre_index

\* the empty call was made on an index that holds entries, with a ledger
\* that knows a latest version
C7_Witness ==
    /\ Done /\ call.txns = <<>>
    /\ call.result = "Ok"
    /\ DOMAIN index_db # {}
    /\ latest_version # <<>>
    /\ index_db = call.pre_index

\* the writes the classifier ignores
Ignored(w) ==
    \/ w[2].kind \in {"Deletion", "Delta"}
    \/ /\ w[2].kind = "Value"
       /\ \/ w[1].kind = "Raw"
          \/ w[1].kind = "AccessPath" /\ w[1].path.kind = "Code"

\* the batch as it was when the i-th write of the call was classified
BatchBefore(i) == IF i = 1 THEN <<>> ELSE call.steps[i - 1].batch

(* C8. Ignored variants are successful no-ops: a Deletion or Delta on any  *)
(* state key, a Value on a code path and a Value on a raw key succeed,     *)
(* stage nothing, decode nothing and look nothing up, wherever in the call *)
(* they stand.                                                             *)
C8_IgnoredWrites ==
    Done => \A i \in 1..call.classified :
                Ignored(CallWrites[i])
                    => /\ call.steps[i].result = "Ok"
                       /\ call.steps[i].batch = BatchBefore(i)
                       /\ call.steps[i].lookups = <<>>
                       /\ call.steps[i].decodes = 0

\* a Deletion on a table item whose handle the index does not hold came
\* after a write that staged an entry, and the call succeeded
C8_Witness ==
    /\ Done
    /\ call.classified = 2
    /\ CallWrites[2][2].kind = "Deletion"
    /\ CallWrites[2][1].kind = "TableItem"
    /\ CallWrites[2][1].handle \notin DOMAIN call.pre_index
    /\ call.result = "Ok"
    /\ Len(call.batch) = 1
    /\ call.lookups = <<>>

\* the first marker the walk of the one decoded value reaches
FirstMarker == MarkersOf(Tree)[1]
ReachesMarker == OneWalk /\ MarkersOf(Tree) # <<>>

\* the call returned a MalformedMarker error and changed nothing
MalformedReturned ==
    /\ pc = "returned"
    /\ call.result = "MalformedMarker"
    /\ call.batch = <<>>
    /\ index_db = call.pre_index

(* C9, as claimed.  A structure of the table-marker type that does not     *)
(* have exactly two type parameters makes the call return a                *)
(* MalformedMarker error, with no durable mutation.                        *)
C9_AsClaimed ==
    (ReachesMarker /\ Len(FirstMarker.type_.type_params) # 2) => MalformedReturned

(* C10, as claimed.  A table marker whose first field is not named         *)
(* "handle", or does not hold a u128, or which has no fields, makes the    *)
(* call return a MalformedMarker error, with nothing staged for it and no  *)
(* durable mutation.                                                       *)
C10_AsClaimed ==
    (/\ ReachesMarker
     /\ Len(FirstMarker.type_.type_params) = 2
     /\ ~IsGoodMarker(FirstMarker))
        => MalformedReturned

---------------------------------------------------------------------------
\* the Table Infos the last call staged for handle h
StagedFor(h) == {call.batch[j].info : j \in {i \in DOMAIN call.batch : call.batch[i].handle = h}}

(* C11, as claimed.  Write-once: once the durable index holds a Table Info *)
(* for a handle, no later call changes the key type or the value type      *)
(* recorded for that handle.                                               *)
C11_AsClaimed ==
    Done => \A h \in DOMAIN call.pre_index :
                h \in DOMAIN index_db /\ index_db[h] = call.pre_index[h]

(* C11, amended.  Once the durable index holds a Table Info for a handle,  *)
(* a later call changes it only if the call succeeds and walked a marker   *)
(* for that handle with other type parameters, and then to the Table Info  *)
(* of such a marker; every other call leaves it as it was.                 *)
C11_WriteOnce ==
    Done => \A h \in DOMAIN call.pre_index :
                /\ h \in DOMAIN index_db
                /\ index_db[h] # call.pre_index[h]
                       => /\ call.result = "Ok"
                          /\ index_db[h] \in StagedFor(h)
                /\ (call.result # "Ok" \/ StagedFor(h) \subseteq {call.pre_index[h]})
                       => index_db[h] = call.pre_index[h]

\* a successful call walked a marker for a handle the index already held,
\* with the recorded type parameters, and added another handle; the first
\* handle's Table Info is as it was
C11_Witness ==
    /\ Done
    /\ call.result = "Ok"
    /\ \E h \in DOMAIN call.pre_index :
         /\ StagedFor(h) = {call.pre_index[h]}
         /\ index_db[h] = call.pre_index[h]
    /\ DOMAIN index_db # DOMAIN call.pre_index

---------------------------------------------------------------------------
\* the last call was given transactions, so it built a resolution context
NonEmptyCall == Done /\ call.txns # <<>>

(* C12, as claimed.  For a non-empty call the resolution context is bound  *)
(* to the latest committed version + 1 when the ledger store knows one,    *)
(* and to version 0 when no prior version exists.                          *)
C12_AsClaimed ==
    NonEmptyCall =>
        call.view_version = IF latest_version = <<>> THEN <<0>>
                            ELSE <<latest_version[1] + 1>>

(* C12, amended.  For a non-empty call the ledger store is asked once, and *)
(* the resolution context is bound to the latest committed version + 1     *)
(* when the ledger store knows one, and to no version at all when no prior *)
(* version exists.                                                         *)
C12_ResolutionVersion ==
    NonEmptyCall =>
        /\ call.version_queries = 1
        /\ latest_version # <<>> => call.view_version = <<latest_version[1] + 1>>
        /\ latest_version = <<>> => call.view_version = <<>>

\* a call that decoded a value ran on a ledger that knows a latest version,
\* and its context was bound to the version after it
C12_Witness ==
    /\ NonEmptyCall
    /\ call.decodes >= 1
    /\ latest_version # <<>>
    /\ call.view_version = <<latest_version[1] + 1>>

---------------------------------------------------------------------------
\* the one decoded value of the last call is a structure
RootStruct == OneWalk /\ Tree.kind = "Struct"

\* the fields of the root hold no sequence and no structure
FlatRoot == \A i \in DOMAIN Tree.value : Tree.value[i][2].kind \notin {"Vector", "Struct"}

TypeParams == {<<>>, <<AddressT>>, P1, P2, P3, <<AddressT, U64T, U64T>>}

(* C13. The table-marker predicate is true of a structure descriptor if    *)
(* and only if its address is the framework address, its module is "table" *)
(* and its name is "Table"; the type parameters do not matter; and the     *)
(* walker stages an entry for a structure of primitive fields exactly when *)
(* the predicate is true of its descriptor.                                *)
C13_IsTable ==
    RootStruct =>
        /\ is_table(Tree.type_) <=> (/\ Tree.type_.address = ONE
                                     /\ Tree.type_.module = "table"
                                     /\ Tree.type_.name = "Table")
        /\ \A tps \in TypeParams :
               is_table([Tree.type_ EXCEPT !.type_params = tps]) <=> is_table(Tree.type_)
        /\ (WritesOk /\ FlatRoot)
               => (call.batch # <<>> <=> (/\ Tree.type_.address = ONE
                                           /\ Tree.type_.module = "table"
                                           /\ Tree.type_.name = "Table"))

\* a structure named table::Table at another address, with a u128 field
\* "handle", was walked as an ordinary structure: nothing was staged
C13_Witness ==
    /\ RootStruct
    /\ Tree.type_.address # ONE
    /\ Tree.type_.module = "table"
    /\ Tree.type_.name = "Table"
    /\ Len(Tree.type_.type_params) = 2
    /\ Tree.value = <<Field("handle", U128(1))>>
    /\ ~is_table(Tree.type_)
    /\ call.result = "Ok"
    /\ call.batch = <<>>

---------------------------------------------------------------------------
\* the one decoded value of the last call reaches exactly one marker, a
\* well-formed one, and that marker has fields after its handle
OneDeepMarker ==
    /\ OneWalk
    /\ Len(MarkersOf(Tree)) = 1
    /\ IsGoodMarker(FirstMarker)
    /\ Len(FirstMarker.value) > 1

(* C14. The walker does not recurse into a table marker: whatever the      *)
(* fields of a well-formed marker hold after the handle, a further marker  *)
(* (well-formed or not) included, the walk succeeds and stages the outer   *)
(* marker's entry and nothing else.                                        *)
C14_NoRecursionIntoMarker ==
    OneDeepMarker
        => /\ WritesOk
           /\ call.batch = <<EntryOf(FirstMarker)>>

\* a marker for one handle holding a well-formed marker for another handle
\* in its second field sat inside a sequence or structure, and only the
\* outer handle was staged and committed
C14_Witness ==
    /\ OneDeepMarker
    /\ Tree.kind = "Struct" /\ Len(Tree.value) = 1
    /\ ~IsMarker(Tree.value[1][2])
    /\ IsMarker(FirstMarker.value[2][2])
    /\ IsGoodMarker(FirstMarker.value[2][2])
    /\ EntryOf(FirstMarker.value[2][2]).handle # EntryOf(FirstMarker).handle
    /\ call.result = "Ok"
    /\ StagedHandles(call.batch) = {EntryOf(FirstMarker).handle}
    /\ EntryOf(FirstMarker.value[2][2]).handle \notin DOMAIN index_db

---------------------------------------------------------------------------
\* the last classified write is a Value write on a table item whose handle
\* the durable index held when the call began
LastIsKnownItem == LastIsItemValue /\ LastWrite[1].handle \in DOMAIN call.pre_index

\* what the classifier returned for it, and its bytes decoded with the
\* value type the index records for its handle
LastStep == call.steps[call.classified]
LastView == view_value(call.pre_index[LastWrite[1].handle].value_type, LastWrite[2].bytes)

(* C15. A Value write on a table-item key whose handle is in the durable   *)
(* index is looked up once and decoded once, with the value type recorded  *)
(* for the handle; if the bytes do not decode under that type the write    *)
(* fails with the decoding error, and otherwise the decoded value is       *)
(* walked: the write ends as the walk ends, and a successful walk has      *)
(* staged the markers of the value as for a resource.                      *)
C15_TableItemWalked ==
    LastIsKnownItem
        => /\ LastStep.lookups = <<LastWrite[1].handle>>
           /\ LastStep.decodes = 1
           /\ LastView.result # "Ok"
                  => /\ LastStep.result = "DecodeError"
                     /\ LastStep.batch = BatchBefore(call.classified)
           /\ LastView.result = "Ok"
                  => /\ LastStep.result
                            = parse_table_info(LastView.value, BatchBefore(call.classified)).result
                     /\ LastStep.batch
                            = parse_table_info(LastView.value, BatchBefore(call.classified)).batch
                     /\ LastStep.result = "Ok"
                            => LastStep.batch = BatchBefore(call.classified)
                                                    \o Entries(MarkersOf(LastView.value))

\* the bytes of a table item decoded under the recorded value type to a
\* marker for a handle the index did not hold, and the call committed it
C15_Witness ==
    /\ LastIsKnownItem
    /\ LastView.result = "Ok"
    /\ IsMarker(LastView.value)
    /\ call.result = "Ok"
    /\ EntryOf(LastView.value).handle \notin DOMAIN call.pre_index
    /\ EntryOf(LastView.value).handle \in DOMAIN index_db
    /\ index_db[EntryOf(LastView.value).handle] = EntryOf(LastView.value).info

---------------------------------------------------------------------------
(* The markers a call observes: for each write that is decoded, in         *)
(* processing order, the entries of the markers of its value, depth first. *)
ObservedAt(i) ==
    IF /\ IsWalked(CallWrites[i], call.pre_index)
       /\ view_value(TypeFor(CallWrites[i], call.pre_index), CallWrites[i][2].bytes).result = "Ok"
    THEN Entries(MarkersOf(view_value(TypeFor(CallWrites[i], call.pre_index),
                                      CallWrites[i][2].bytes).value))
    ELSE <<>>

RECURSIVE ObservedUpTo(_)
ObservedUpTo(n) == IF n = 0 THEN <<>> ELSE ObservedUpTo(n - 1) \o ObservedAt(n)

Observed == ObservedUpTo(Len(CallWrites))

\* the Table Infos a sequence of entries holds for handle h, and the place
\* of the last of them
InfosOf(obs, h) == {obs[i].info : i \in {j \in DOMAIN obs : obs[j].handle = h}}
LastOf(obs, h) ==
    CHOOSE i \in DOMAIN obs :
        /\ obs[i].handle = h
        /\ \A j \in DOMAIN obs : obs[j].handle = h => j <= i

Succeeded == Done /\ call.result = "Ok"

\* the index holds, for every handle of obs, the last entry obs has for it
LastWins(obs) ==
    \A h \in StagedHandles(obs) :
        /\ h \in DOMAIN index_db
        /\ index_db[h] = obs[LastOf(obs, h)].info
        /\ Cardinality(InfosOf(obs, h)) = 1 => index_db[h] \in InfosOf(obs, h)

\* obs holds two entries with different type parameters for one handle,
\* and the index holds the later one
LaterWon(obs) ==
    \E h \in StagedHandles(obs) :
        /\ Cardinality(InfosOf(obs, h)) = 2
        /\ \E i \in DOMAIN obs :
             /\ obs[i].handle = h
             /\ i < LastOf(obs, h)
             /\ obs[i].info # obs[LastOf(obs, h)].info
             /\ index_db[h] # obs[i].info
        /\ index_db[h] = obs[LastOf(obs, h)].info

(* C16. In a successful call the entries are staged in the order the       *)
(* markers are observed (transactions in order, writes in write-set order, *)
(* depth first within a value), and for every handle observed, however     *)
(* often, the durable index holds one entry, that of the marker observed   *)
(* last; if all observations of the handle carry the same type parameters  *)
(* it is the entry of any of them.                                         *)
C16_LastObservationWins ==
    Succeeded
        => /\ call.batch = Observed
           /\ LastWins(Observed)

\* a successful call observed one handle twice with different type
\* parameters, and the index holds the later ones
C16_Witness ==
    /\ Succeeded
    /\ LaterWon(Observed)

---------------------------------------------------------------------------
\* the lookups and the decodings of the first n writes the call classified
RECURSIVE LookupsUpTo(_)
LookupsUpTo(n) == IF n = 0 THEN <<>> ELSE LookupsUpTo(n - 1) \o call.steps[n].lookups

RECURSIVE DecodesUpTo(_)
DecodesUpTo(n) == IF n = 0 THEN 0 ELSE DecodesUpTo(n - 1) + call.steps[n].decodes

(* C17. Fail-fast in order: the call classifies the writes in processing   *)
(* order (transactions in list order, writes in write-set order), each     *)
(* against the index as the call found it and the batch as the writes      *)
(* before it left it; every write before the last classified one           *)
(* succeeded; the call stops short of its last write only at a write that  *)
(* failed, ends with that write's outcome and writes nothing; and the      *)
(* lookups and decodings of the call are those of the writes classified,   *)
(* none of a later write.                                                  *)
C17_FailFast ==
    Done
        => /\ call.classified <= Len(CallWrites)
           /\ Len(call.steps) = call.classified
           /\ \A i \in 1..call.classified :
                  /\ call.steps[i]
                         = parse_table_info_from_write_op(call.pre_index, CallWrites[i][1],
                                                          CallWrites[i][2], BatchBefore(i))
                  /\ i < call.classified => call.steps[i].result = "Ok"
           /\ call.classified < Len(CallWrites) => LastStep.result # "Ok"
           /\ (call.classified >= 1 /\ LastStep.result # "Ok")
                  => /\ call.result = LastStep.result
                     /\ call.commits = 0
                     /\ index_db = call.pre_index
           /\ call.lookups = LookupsUpTo(call.classified)
           /\ call.decodes = DecodesUpTo(call.classified)

\* the one write of the first of two transactions failed after its
\* decoding; the write of the second, a table item the index knows, was
\* neither looked up nor decoded
C17_Witness ==
    /\ Done
    /\ Len(call.txns) = 2
    /\ Len(CallWrites) = 2
    /\ call.classified = 1
    /\ call.result \in FatalKinds
    /\ IsItemValue(CallWrites[2])
    /\ CallWrites[2][1].handle \in DOMAIN call.pre_index
    /\ call.lookups = <<>>
    /\ call.decodes = 1

---------------------------------------------------------------------------
\* every write of the call was classified, and successfully
AllClassifiedOk ==
    /\ call.classified = Len(CallWrites)
    /\ \A i \in 1..call.classified : call.steps[i].result = "Ok"

\* the durable writes the call performed: the batch writes that took effect
DurableWrites == IF call.commits >= 1 /\ call.result = "Ok" THEN call.commits ELSE 0

(* C18. A call hands at most one batch to the index store, and only after  *)
(* every write of every transaction was classified successfully; a         *)
(* successful non-empty call performs exactly one durable write, even when *)
(* nothing was staged; an empty call and a call one of whose writes failed *)
(* hand no batch to the store; and a call that failed performed no durable *)
(* write: if the store rejected its batch, the index is as it was.         *)
C18_OneDurableWrite ==
    Done
        => /\ call.commits \in {0, 1}
           /\ call.batches \in {0, 1}
           /\ call.commits = 1 => (call.txns # <<>> /\ AllClassifiedOk)
           /\ (call.result = "Ok" /\ call.txns # <<>>)
                  => (call.commits = 1 /\ DurableWrites = 1)
           /\ call.txns = <<>> => call.commits = 0
           /\ ~AllClassifiedOk => call.commits = 0
           /\ call.result # "Ok" => (DurableWrites = 0 /\ index_db = call.pre_index)

\* a successful call of two writes staged nothing and wrote its empty batch
C18_Witness ==
    /\ Succeeded
    /\ Len(CallWrites) = 2
    /\ AllClassifiedOk
    /\ call.batch = <<>>
    /\ call.commits = 1
    /\ index_db = call.pre_index

---------------------------------------------------------------------------
(* C19. The set of handles in the durable index never shrinks: no step,    *)
(* whether a call that succeeds, a call that fails or a call whose writes  *)
(* are Deletions, takes a handle out of the index.                         *)
C19_HandlesNeverShrink ==
    [][DOMAIN index_db \subseteq DOMAIN index_db']_vars

\* a call deleted the resource under which the marker of a table had been
\* written, it succeeded, and the index holds what it held
C19_Witness ==
    /\ Succeeded
    /\ Len(CallWrites) = 1
    /\ CallWrites[1] = <<AccessPath("Resource", RT), Deletion>>
    /\ call.commits = 1
    /\ DOMAIN call.pre_index # {}
    /\ index_db = call.pre_index

---------------------------------------------------------------------------
\* the i-th write of the last call was decoded, and the value it decoded to
DecodedAt(i) ==
    /\ IsWalked(CallWrites[i], call.pre_index)
    /\ view_value(TypeFor(CallWrites[i], call.pre_index), CallWrites[i][2].bytes).result = "Ok"

TreeAt(i) == view_value(TypeFor(CallWrites[i], call.pre_index), CallWrites[i][2].bytes).value

\* the last call walked a well-formed marker with handle h and the type
\* parameters of info
GoodMarkerFor(m, h, info) ==
    /\ IsGoodMarker(m)
    /\ m.value[1][2].num = h
    /\ m.type_.type_params[1] = info.key_type
    /\ m.type_.type_params[2] = info.value_type

Range(f) == {f[k] : k \in DOMAIN f}

WalkedGoodMarker(h, info) ==
    \E i \in 1..call.classified :
        /\ DecodedAt(i)
        /\ \E m \in Range(MarkersOf(TreeAt(i))) : GoodMarkerFor(m, h, info)

\* the entry for h is one the call that just ended produced, by walking a
\* well-formed marker and completing successfully
ProducedByCall(h, info) ==
    /\ pc = "returned"
    /\ call.result = "Ok"
    /\ call.classified = Len(CallWrites)
    /\ WalkedGoodMarker(h, info)

(* C20. No spurious entries: every step leaves each entry of the durable   *)
(* index either as it was before the step, or as produced by a call that   *)
(* completed successfully and walked a well-formed table marker with the   *)
(* entry's handle and its key and value types; so from the empty index,    *)
(* no entry comes from a failed call or from a structure that is not a     *)
(* marker.                                                                 *)
C20_NoSpuriousEntries ==
    [][\/ index_db' = index_db
       \/ \A h \in DOMAIN index_db' :
              \/ h \in DOMAIN index_db /\ index_db'[h] = index_db[h]
              \/ ProducedByCall(h, index_db[h])']_vars

\* the index holds an entry of an earlier call and an entry the call that
\* just ended produced from a marker in the value of a table item
C20_Witness ==
    /\ Succeeded
    /\ DOMAIN call.pre_index # {}
    /\ \E h \in DOMAIN index_db :
         /\ h \notin DOMAIN call.pre_index
         /\ WalkedGoodMarker(h, index_db[h])
    /\ \E i \in 1..call.classified : IsItemValue(CallWrites[i]) /\ IsMarker(TreeAt(i))

=============================================================================
